---- MODULE Spec2Model ----
(***************************************************************************)
(* Issue store, vector index, similarity cache, embedding queue, indexing  *)
(* worker, webhooks and sandbox bootstrap of rag_issue_triage.              *)
(*                                                                         *)
(* Text is a sequence of tokens (naturals); NL is the newline token.  An   *)
(* embedding is one integer coordinate, the pgvector distance <-> is the   *)
(* absolute difference.  Every await on the database is one step: the      *)
(* statement is applied on an autocommit connection unless the source      *)
(* opens conn.transaction().                                               *)
(*                                                                         *)
(* db/init.sql is not among the sources.  The columns of issue_vectors are *)
(* therefore an input fixed at start: either the columns named by the      *)
(* bootstrap INSERT, or those plus the column named only by the worker     *)
(* INSERT.  A statement naming a column the table lacks is rejected by the *)
(* server (UndefinedColumnError).                                          *)
(*                                                                         *)
(* The embedding column's typmod is the declared dimension (pgvector).     *)
(* Search scores are exact fractions; the lexical rank is a tenth per      *)
(* occurrence of the query term in title and body.  Rows that tie under an *)
(* ORDER BY come in any order.                                             *)
(***************************************************************************)
EXTENDS Integers, Sequences, FiniteSets, TLC

\* ---- bounds -------------------------------------------------------------
MaxJobs == 2
MaxBoots == 2
MaxDeliveries == 1
MaxFaults == 1
MaxLimit == 3
MaxCatalog == 2
MaxChunks == 2

\* worker processes consuming the same list
Workers == {"w1", "w2"}

\* ---- program constants --------------------------------------------------
DEFAULT_MODEL == "sentence-transformers/all-MiniLM-L6-v2"
OTHER_MODEL == "other-model"
Models == {DEFAULT_MODEL, OTHER_MODEL}
TopK == 5
NL == 0

\* a model of another output length, for the embedding load
SMALL_MODEL == "small-model"
LoadModels == Models \cup {SMALL_MODEL}

\* get_model(model).get_sentence_embedding_dimension()
get_sentence_embedding_dimension(model) ==
  IF model = SMALL_MODEL THEN 256 ELSE 384

\* atttypmod of a pgvector column: the declared dimension, -1 when the
\* column is declared without one
NoTypmod == -1
VARHDRSZ == 4

\* "no declared dimension": no dimension is 0
None == 0

\* mutant: the declared dimension is never looked up
_vector_column_dimension_absent(atttypmod) == None

\* _vector_column_dimension
_vector_column_dimension(atttypmod) ==
  IF atttypmod <= VARHDRSZ THEN None ELSE atttypmod

\* the server's check of a vector against the column's typmod
VectorFitsColumn(atttypmod, model) ==
  atttypmod = NoTypmod \/ atttypmod = get_sentence_embedding_dimension(model)

\* ---- helpers ------------------------------------------------------------
Abs(x) == IF x < 0 THEN 0 - x ELSE x

RECURSIVE SumSeq(_)
SumSeq(s) == IF s = <<>> THEN 0 ELSE Head(s) + SumSeq(Tail(s))

RECURSIVE LStrip(_)
LStrip(s) == IF s # <<>> /\ Head(s) = NL THEN LStrip(Tail(s)) ELSE s

RECURSIVE RStrip(_)
RStrip(s) ==
  IF s # <<>> /\ s[Len(s)] = NL THEN RStrip(SubSeq(s, 1, Len(s) - 1)) ELSE s

\* str.strip()
Strip(s) == RStrip(LStrip(s))

\* the provider: deterministic for a given model identifier
encode_texts(text, model) ==
  IF model = DEFAULT_MODEL THEN SumSeq(text) ELSE 2 * SumSeq(text) + 1

\* f"{title}\n\n{body}".strip()
IssueText(title, body) == Strip(title \o <<NL, NL>> \o body)

embedding_for_issue(title, body) ==
  encode_texts(IssueText(title, body), DEFAULT_MODEL)

\* pgvector <-> (L2 distance)
Distance(a, b) == Abs(a - b)

\* ---- sandbox dataset (db/sandbox/*.ndjson) -------------------------------
GithubRecords ==
  << [repo |-> "org/repo", number |-> 1, title |-> <<7>>,  body |-> <<6>>,
      labels |-> << <<31>>, <<NL>>, <<NL, 32>> >>],
     [repo |-> "org/repo", number |-> 2, title |-> <<10>>, body |-> <<>>,
      labels |-> << <<31>> >>],
     [repo |-> "org/repo", number |-> 3, title |-> <<11>>, body |-> <<>>,
      labels |-> <<>>],
     [repo |-> "org/repo", number |-> 4, title |-> <<12>>, body |-> <<NL>>,
      labels |-> <<>>] >>

JiraRecords ==
  << [projectKey |-> "ABC", number |-> 1, title |-> <<14>>, body |-> <<>>,
      labels |-> << <<32>> >>],
     [projectKey |-> "ABC", number |-> 2, title |-> <<9>>,  body |-> <<6>>,
      labels |-> <<>>],
     [projectKey |-> "ABC", number |-> 3, title |-> <<16>>, body |-> <<>>,
      labels |-> <<>>] >>

\* _make_payload
_make_payload(record, flavor) ==
  [ source |-> flavor,
    external_key |-> IF flavor = "github"
                     THEN <<record.repo, "#", record.number>>
                     ELSE <<record.projectKey, "-", record.number>>,
    title |-> record.title,
    body |-> record.body ]


\* ---- schema as named by the statements in the sources --------------------
\* INSERT INTO issue_vectors (issue_id, embedding, model, updated_at) ... SET
BootstrapVectorColumns == {"issue_id", "embedding", "model", "updated_at"}

\* INSERT INTO issue_vectors (issue_id, embedding, model, updpated_at)
WorkerInsertColumns == {"issue_id", "embedding", "model", "updpated_at"}

\* ON CONFLICT (issue_id) DO UPDATE SET embedding, model, updated_at
WorkerUpdateColumns == {"issue_id", "embedding", "model", "updated_at"}

\* store_issue: $1..$9 in the statement, the arguments passed after it
StoreIssuePlaceholders == 9
StoreIssueArgs ==
  << "source", "external_key", "title", "body",
     "project", "status", "created_at", "raw_json" >>

\* ---- queue messages (UTF-8 text on triage:embed) -------------------------
\* kind "text": not JSON; "array": JSON that is not an object; "object"
NotJson == [kind |-> "text", has_id |-> FALSE, issue_id |-> 0, force |-> FALSE]
NotObject == [kind |-> "array", has_id |-> FALSE, issue_id |-> 0, force |-> FALSE]
NoIssueId == [kind |-> "object", has_id |-> FALSE, issue_id |-> 0, force |-> FALSE]

\* json.dumps({"issue_id": issue_id, "force": force})
json_dumps(issue_id, force) ==
  [kind |-> "object", has_id |-> TRUE, issue_id |-> issue_id, force |-> force]

\* json.loads(raw) raises JSONDecodeError on text that is not JSON
json_loads_raises(raw) == raw.kind = "text"

\* inputs
JobIssueIds == {1, 8}
ForeignMessages == {NotJson, NotObject, NoIssueId}

WebhookPayloads ==
  { [source |-> "github", external_key |-> <<"org/repo", "#", 1>>,
     title |-> <<20>>, body |-> <<>>, labels |-> << <<33>> >>],
    [source |-> "github", external_key |-> <<"org/repo", "#", 9>>,
     title |-> <<21>>, body |-> <<>>, labels |-> << <<31>> >>],
    [source |-> "jira", external_key |-> <<"ABC", "-", 1>>,
     title |-> <<22>>, body |-> <<>>, labels |-> <<>>] }

GithubEvents == {"issues", "issue_comment", "pull_request", "ping"}

VARIABLES
  issue_vectors_columns, \* columns of table issue_vectors
  issues,                \* table issues: rows [id, source, external_key, title, body]
  next_id,               \* the serial behind issues.id
  issue_vectors,         \* table issue_vectors: rows [issue_id, embedding, model]
  similar,               \* table similar: rows [issue_id, neighbor_id, score]
  queue,                 \* Redis list triage:embed
  pushed,                \* messages pushed so far
  wpc,                   \* per worker: position in worker()/process_job
  wjob,                  \* per worker: the job in hand and process_job's locals
  last,                  \* per worker: how the last job taken ended
  bpc,                   \* bootstrap CLI: position
  brows,                 \* bootstrap: rows read by ensure_embeddings
  bmodel,                \* bootstrap: --model
  boots,                 \* bootstrap invocations so far
  delivered,             \* per key: the latest payload a webhook handed to
                         \* store_issue, unless the bootstrap loaded the key since
  deliveries,            \* webhook deliveries so far
  faults,                \* injected provider/store failures so far
  computed,              \* per job issue id: embeddings computed by process_job
  tainted,               \* issue ids that had a forced or an overlapping job,
                         \* or whose rows were truncated
  unindexed,             \* issue ids upserted by a job whose edge insert is pending
  lastWrite,             \* per issue: the row of the latest upsert statement
  labels,                \* table labels: rows [issue_id, label, source]
  embedding_typmod,      \* pg_attribute.atttypmod of issue_vectors.embedding
  blast,                 \* bootstrap CLI: how the last embedding load went
  sres,                  \* the latest search call and what it returned
  catalog,               \* table issues as the viewer reads it: rows [id,
                         \* source, external_key, repo, project, raw_json]
  vres,                  \* the latest viewer call and what it returned
  doc,                   \* the latest text rendered and its HTML
  prop                   \* triage.propose: position, calls made, proposal

vars ==
  << issue_vectors_columns, issues, next_id, issue_vectors, similar, queue,
     pushed, wpc, wjob, last, bpc, brows, bmodel, boots, delivered,
     deliveries, faults, computed, tainted, unindexed, lastWrite, labels,
     embedding_typmod, blast, sres, catalog, vres, doc, prop >>

viewVars == << catalog, vres, doc, prop >>
dbVars == << issues, next_id, issue_vectors, similar >>
workerVars == << wpc, wjob, last >>
bootVars == << bpc, brows, bmodel, boots >>
histVars == << computed, tainted, unindexed, lastWrite >>

NoJob ==
  [issue_id |-> 0, force |-> FALSE, title |-> <<>>, body |-> <<>>, vector |-> 0]
NoResult == "none"
NoSearch ==
  [op |-> "none", embedding |-> 0, query |-> 0, limit |-> 0,
   alpha |-> [n |-> 0, d |-> 1], model |-> DEFAULT_MODEL,
   vc |-> {}, tc |-> {}, rows |-> <<>>]

NoView ==
  [op |-> "none", route |-> <<>>, routes |-> <<>>, id |-> 0, found |-> <<>>]
NoDoc ==
  [op |-> "none", text |-> <<>>, html |-> <<>>, comment |-> <<>>,
   comment_html |-> <<>>]
NoProposal ==
  [pc |-> "idle", embedding |-> 0, reranker |-> "", top_k |-> 0,
   model_name |-> "", calls |-> <<>>, neighbors |-> <<>>, similar |-> <<>>,
   labels |-> <<>>, assignee_candidates |-> <<"unset">>]

\* the state after the services start on a database whose embedding column
\* has the given typmod
InitStore(atttypmod) ==
  /\ issue_vectors_columns \in
       {BootstrapVectorColumns, BootstrapVectorColumns \cup WorkerInsertColumns}
  /\ issues = {}
  /\ next_id = 1
  /\ issue_vectors = {}
  /\ similar = {}
  /\ queue = <<>>
  /\ pushed = 0
  /\ wpc = [w \in Workers |-> "blpop"]
  /\ wjob = [w \in Workers |-> NoJob]
  /\ last = [w \in Workers |-> NoResult]
  /\ bpc = "idle"
  /\ brows = {}
  /\ bmodel = DEFAULT_MODEL
  /\ boots = 0
  /\ delivered = {}
  /\ deliveries = 0
  /\ faults = 0
  /\ computed = [i \in JobIssueIds |-> 0]
  /\ tainted = {}
  /\ unindexed = {}
  /\ lastWrite = {}
  /\ labels = {}
  /\ embedding_typmod = atttypmod
  /\ blast = "none"
  /\ sres = NoSearch
  /\ catalog = {}
  /\ vres = NoView
  /\ prop = NoProposal

\* ... and nothing has been rendered
InitWith(atttypmod) == InitStore(atttypmod) /\ doc = NoDoc

\* the schema declares the dimension of the default model
Init == InitWith(get_sentence_embedding_dimension(DEFAULT_MODEL))

\* schemas the embedding load may meet: no declared dimension, or one of these
TypmodChoices == {NoTypmod, 3, 256, 384}
InitLoad == \E atttypmod \in TypmodChoices : InitWith(atttypmod)


\* ---- issue store ----------------------------------------------------------
\* INSERT INTO issues ... ON CONFLICT (source, external_key) DO UPDATE ...
\* RETURNING id; the serial advances for every attempted insert.
UpsertIssueRows(rows, nid, payload) ==
  LET hit == {r \in rows : r.source = payload.source
                           /\ r.external_key = payload.external_key}
  IN IF hit = {}
     THEN rows \cup {[id |-> nid, source |-> payload.source,
                      external_key |-> payload.external_key,
                      title |-> payload.title, body |-> payload.body]}
     ELSE (rows \ hit) \cup
          {[r EXCEPT !.title = payload.title, !.body = payload.body] : r \in hit}

\* the labels _replace_labels keeps: _coerce_text(label).strip(), if not empty
CleanedLabels(labs) ==
  {Strip(labs[k]) : k \in 1..Len(labs)} \ {<<>>}

\* _replace_labels: DELETE FROM labels WHERE issue_id = $1, then the INSERTs
_replace_labels(lbls, issue_id, labs, source) ==
  {x \in lbls : x.issue_id # issue_id} \cup
  {[issue_id |-> issue_id, label |-> l, source |-> source] :
     l \in CleanedLabels(labs)}

\* _upsert_issue and _replace_labels for every record of one dataset file,
\* as one transaction
RECURSIVE LoadRecords(_, _, _, _, _)
LoadRecords(records, flavor, rows, nid, lbls) ==
  IF records = <<>>
  THEN [rows |-> rows, next_id |-> nid, labels |-> lbls]
  ELSE LET payload == _make_payload(Head(records), flavor)
           upserted == UpsertIssueRows(rows, nid, payload)
           issue_id == (CHOOSE r \in upserted :
                          /\ r.source = payload.source
                          /\ r.external_key = payload.external_key).id
       IN LoadRecords(Tail(records), flavor, upserted, nid + 1,
                      _replace_labels(lbls, issue_id, Head(records).labels,
                                      flavor))

\* store_issue binds its arguments to the placeholders; asyncpg rejects a
\* call whose argument count differs from the statement's (InterfaceError)
store_issue_raises == Len(StoreIssueArgs) # StoreIssuePlaceholders

\* ---- vector index ---------------------------------------------------------
\* bootstrap: INSERT ... ON CONFLICT (issue_id) DO UPDATE SET embedding, model
bootstrap_upsert_vector(vectors, row) ==
  {v \in vectors : v.issue_id # row.issue_id} \cup {row}

\* mutant: the INSERT without its ON CONFLICT clause on a table without the key
worker_insert_vector(vectors, row) == vectors \cup {row}

\* worker: INSERT ... ON CONFLICT (issue_id) DO UPDATE SET embedding, model
worker_upsert_vector(vectors, row) ==
  {v \in vectors : v.issue_id # row.issue_id} \cup {row}

RECURSIVE UpsertAll(_, _)
UpsertAll(vectors, rows) ==
  IF rows = {}
  THEN vectors
  ELSE LET r == CHOOSE x \in rows : TRUE
       IN UpsertAll(bootstrap_upsert_vector(vectors, r), rows \ {r})

\* the server accepts a statement only if the table has every column it names
StatementAccepted(columns) == columns \subseteq issue_vectors_columns

\* ---- sandbox bootstrap CLI ------------------------------------------------
\* ensure_sample_data: TRUNCATE ... RESTART IDENTITY CASCADE when forced,
\* otherwise return when issues are present; then load the github file
ensure_sample_data(force) ==
  /\ bpc = "idle"
  /\ boots < MaxBoots
  /\ boots' = boots + 1
  /\ IF force
     THEN /\ issues' = {}
          /\ next_id' = 1
          /\ issue_vectors' = {}
          /\ similar' = {}
          /\ tainted' = JobIssueIds
          /\ unindexed' = {}
          /\ UNCHANGED computed
          /\ lastWrite' = {}
          /\ labels' = {}
          /\ bpc' = "load_github"
     ELSE /\ bpc' = IF issues # {} THEN "idle" ELSE "load_github"
          /\ UNCHANGED << dbVars, histVars, labels >>
  /\ blast' = "load-data"
  /\ UNCHANGED << issue_vectors_columns, queue, pushed, workerVars, brows,
                  bmodel, delivered, deliveries, faults, embedding_typmod,
                  sres, viewVars >>

\* one transaction per dataset file
ensure_sample_data_load ==
  /\ bpc \in {"load_github", "load_jira"}
  /\ LET flavor == IF bpc = "load_github" THEN "github" ELSE "jira"
         records == IF bpc = "load_github" THEN GithubRecords ELSE JiraRecords
         done == LoadRecords(records, flavor, issues, next_id, labels)
     IN /\ issues' = done.rows
        /\ next_id' = done.next_id
        /\ labels' = done.labels
        /\ delivered' =
             {d \in delivered :
                ~ \E k \in 1..Len(records) :
                    LET p == _make_payload(records[k], flavor)
                    IN p.source = d.source /\ p.external_key = d.external_key}
  /\ bpc' = IF bpc = "load_github" THEN "load_jira" ELSE "idle"
  /\ UNCHANGED << issue_vectors_columns, issue_vectors, similar, queue, pushed,
                  workerVars, brows, bmodel, boots, deliveries, faults,
                  histVars, embedding_typmod, blast, sres, viewVars >>

\* ensure_embeddings up to SELECT id, title, body FROM issues ORDER BY id
ensure_embeddings(model, force) ==
  /\ bpc = "idle"
  /\ boots < MaxBoots
  /\ boots' = boots + 1
  /\ LET missing == {r \in issues :
                       ~ \E v \in issue_vectors : v.issue_id = r.id}
         skip == \/ issues = {}
                 \/ ~force /\ missing = {} /\ issue_vectors # {}
         vector_dimension == _vector_column_dimension(embedding_typmod)
         expected_dimension == get_sentence_embedding_dimension(model)
     IN IF skip
        THEN /\ blast' = "skipped"
             /\ UNCHANGED << bpc, brows, bmodel >>
        ELSE IF vector_dimension # None /\ vector_dimension # expected_dimension
        THEN /\ blast' = "RuntimeError"
             /\ bmodel' = model
             /\ UNCHANGED << bpc, brows >>
        ELSE /\ bpc' = "emb_write"
             /\ brows' = issues
             /\ bmodel' = model
             /\ blast' = "loading"
  /\ UNCHANGED << issue_vectors_columns, dbVars, queue, pushed, workerVars,
                  delivered, deliveries, faults, histVars, labels,
                  embedding_typmod, sres, viewVars >>

\* the chunk's upserts, in one transaction
ensure_embeddings_write ==
  /\ bpc = "emb_write"
  /\ LET rows == {[issue_id |-> r.id,
                   embedding |-> encode_texts(IssueText(r.title, r.body), bmodel),
                   model |-> bmodel] : r \in brows}
     IN IF VectorFitsColumn(embedding_typmod, bmodel)
        THEN /\ issue_vectors' = UpsertAll(issue_vectors, rows)
             /\ lastWrite' = {v \in lastWrite :
                                ~ \E r \in rows : r.issue_id = v.issue_id}
                              \cup rows
             /\ blast' = "embedded"
        ELSE /\ blast' = "DataError"
             /\ UNCHANGED << issue_vectors, lastWrite >>
  /\ bpc' = "idle"
  /\ brows' = {}
  /\ UNCHANGED << issue_vectors_columns, issues, next_id, similar, queue, pushed,
                  workerVars, bmodel, boots, delivered, deliveries, faults,
                  computed, tainted, unindexed, labels, embedding_typmod,
                  sres, viewVars >>


\* ---- producers --------------------------------------------------------------
\* redis.rpush("triage:embed", json.dumps({...}))
rpush(q, raw) == Append(q, raw)

enqueue_embedding_job(issue_id, force) ==
  /\ pushed < MaxJobs
  /\ pushed' = pushed + 1
  /\ queue' = rpush(queue, json_dumps(issue_id, force))
  /\ UNCHANGED << issue_vectors_columns, dbVars, workerVars, bootVars,
                  delivered, deliveries, faults, histVars >>
  /\ UNCHANGED << labels, embedding_typmod, blast, sres, viewVars >>

\* any other text a Redis client leaves on the list
foreign_rpush(raw) ==
  /\ pushed < MaxJobs
  /\ pushed' = pushed + 1
  /\ queue' = rpush(queue, raw)
  /\ UNCHANGED << issue_vectors_columns, dbVars, workerVars, bootVars,
                  delivered, deliveries, faults, histVars >>
  /\ UNCHANGED << labels, embedding_typmod, blast, sres, viewVars >>

\* ---- webhooks ---------------------------------------------------------------
\* normalize, store_issue, enqueue_embedding_job(redis, issue_id)
StoreAndEnqueue(payload) ==
  /\ delivered' = {d \in delivered : ~(d.source = payload.source
                       /\ d.external_key = payload.external_key)} \cup {payload}
  /\ IF store_issue_raises
     THEN UNCHANGED << issues, next_id, queue, pushed >>
     ELSE LET rows == UpsertIssueRows(issues, next_id, payload)
              id == (CHOOSE r \in rows : r.source = payload.source
                        /\ r.external_key = payload.external_key).id
          IN /\ issues' = rows
             /\ next_id' = next_id + 1
             /\ queue' = rpush(queue, json_dumps(id, FALSE))
             /\ pushed' = pushed + 1

handle_github(event, payload) ==
  /\ deliveries < MaxDeliveries
  /\ deliveries' = deliveries + 1
  /\ payload.source = "github"
  /\ IF event \in {"issues", "issue_comment", "pull_request"}
     THEN StoreAndEnqueue(payload)
     ELSE UNCHANGED << delivered, issues, next_id, queue, pushed >>
  /\ UNCHANGED << issue_vectors_columns, issue_vectors, similar, workerVars,
                  bootVars, faults, histVars >>
  /\ UNCHANGED << labels, embedding_typmod, blast, sres, viewVars >>

handle_jira(payload) ==
  /\ deliveries < MaxDeliveries
  /\ deliveries' = deliveries + 1
  /\ payload.source = "jira"
  /\ StoreAndEnqueue(payload)
  /\ UNCHANGED << issue_vectors_columns, issue_vectors, similar, workerVars,
                  bootVars, faults, histVars >>
  /\ UNCHANGED << labels, embedding_typmod, blast, sres, viewVars >>


\* ---- indexing worker --------------------------------------------------------
Min(a, b) == IF a < b THEN a ELSE b

\* mutant: the handler puts the failed job back on the list
worker_except_requeues(q, job) ==
  [pc |-> "blpop", queue |-> Append(q, json_dumps(job.issue_id, job.force))]

\* mutant: the exception leaves the while loop
worker_except_leaves_loop(q, job) == [pc |-> "terminated", queue |-> q]

\* worker(): except Exception: logger.exception(...); nothing is pushed back
\* and the while loop goes on with the next blpop
worker_except(q, job) == [pc |-> "blpop", queue |-> q]

\* mutant: the subquery without "iv.issue_id != $1"
Candidates_with_self(issue_id) ==
  {v \in issue_vectors :
     /\ v.model = DEFAULT_MODEL
     /\ \E r \in issues : r.id = v.issue_id}

\* the rows the neighbour subquery ranges over
Candidates(issue_id) ==
  {v \in issue_vectors :
     /\ v.issue_id # issue_id
     /\ v.model = DEFAULT_MODEL
     /\ \E r \in issues : r.id = v.issue_id}

\* ORDER BY iv.embedding <-> $2 LIMIT 5; equal distances in either order
NearestSets(C, vector) ==
  {S \in SUBSET C :
     /\ Cardinality(S) = Min(TopK, Cardinality(C))
     /\ \A s \in S : \A c \in C \ S :
          Distance(s.embedding, vector) <= Distance(c.embedding, vector)}

\* INSERT INTO similar ... SELECT $1, n.id, n.score ... ON CONFLICT DO NOTHING
insert_similar(sim, issue_id, S, vector) ==
  sim \cup
  {[issue_id |-> issue_id, neighbor_id |-> s.issue_id,
    score |-> 1 - Distance(s.embedding, vector)] :
     s \in {x \in S : ~ \E e \in sim : /\ e.issue_id = issue_id
                                      /\ e.neighbor_id = x.issue_id}}

Busy(w) == wpc[w] \notin {"blpop", "terminated"}

\* process_job returns or raises: back in worker()
Finish(w, result, raised) ==
  LET h == IF raised THEN worker_except(queue, wjob[w])
                     ELSE [pc |-> "blpop", queue |-> queue]
  IN /\ wpc' = [wpc EXCEPT ![w] = h.pc]
     /\ queue' = h.queue
     /\ last' = [last EXCEPT ![w] = result]
     /\ wjob' = [wjob EXCEPT ![w] = NoJob]

\* embeddings.embedding_for_issue(record["title"], record["body"]); the
\* provider may fail
Compute(w, title, body) ==
  \E ok \in BOOLEAN :
    IF ok
    THEN /\ wjob' = [wjob EXCEPT ![w].title = title, ![w].body = body,
                                 ![w].vector = embedding_for_issue(title, body)]
         /\ wpc' = [wpc EXCEPT ![w] = "upsert"]
         /\ computed' = [computed EXCEPT ![wjob[w].issue_id] = @ + 1]
         /\ UNCHANGED << queue, last, faults >>
    ELSE /\ faults < MaxFaults
         /\ faults' = faults + 1
         /\ Finish(w, "provider_error", TRUE)
         /\ UNCHANGED computed

\* blpop, json.loads, logging_context(issue_id=job.get("issue_id")), and
\* process_job up to its first statement
worker_blpop(w) ==
  /\ wpc[w] = "blpop"
  /\ queue # <<>>
  /\ LET raw == Head(queue)
         rest == Tail(queue)
     IN IF json_loads_raises(raw)
        THEN /\ wpc' = [wpc EXCEPT ![w] = "terminated"]
             /\ queue' = rest
             /\ last' = [last EXCEPT ![w] = "JSONDecodeError"]
             /\ UNCHANGED << wjob, tainted >>
        ELSE IF raw.kind # "object" \/ ~raw.has_id
        THEN LET h == worker_except(rest, raw)
             IN /\ wpc' = [wpc EXCEPT ![w] = h.pc]
                /\ queue' = h.queue
                /\ last' = [last EXCEPT ![w] =
                              IF raw.kind # "object"
                              THEN "AttributeError" ELSE "KeyError"]
                /\ UNCHANGED << wjob, tainted >>
        ELSE /\ wpc' = [wpc EXCEPT ![w] = "fetch_issue"]
             /\ queue' = rest
             /\ wjob' = [wjob EXCEPT ![w] = [NoJob EXCEPT
                                               !.issue_id = raw.issue_id,
                                               !.force = raw.force]]
             /\ tainted' =
                  IF \/ raw.force
                     \/ \E o \in Workers \ {w} :
                          Busy(o) /\ wjob[o].issue_id = raw.issue_id
                  THEN tainted \cup {raw.issue_id}
                  ELSE tainted
             /\ UNCHANGED last
  /\ UNCHANGED << issue_vectors_columns, dbVars, pushed, bootVars, delivered,
                  deliveries, faults, computed, unindexed, lastWrite >>
  /\ UNCHANGED << labels, embedding_typmod, blast, sres, viewVars >>

\* mutant: process_job without "if not record: return"
process_job_fetch_issue_unchecked(w) ==
  /\ wpc[w] = "fetch_issue"
  /\ LET record == {r \in issues : r.id = wjob[w].issue_id}
         title == IF record = {} THEN <<>> ELSE (CHOOSE x \in record : TRUE).title
         body == IF record = {} THEN <<>> ELSE (CHOOSE x \in record : TRUE).body
     IN IF ~wjob[w].force
        THEN /\ wjob' = [wjob EXCEPT ![w].title = title, ![w].body = body]
             /\ wpc' = [wpc EXCEPT ![w] = "check_existing"]
             /\ UNCHANGED << queue, last, computed, faults >>
        ELSE Compute(w, title, body)
  /\ UNCHANGED << issue_vectors_columns, dbVars, pushed, bootVars, delivered,
                  deliveries, tainted, unindexed, lastWrite >>
  /\ UNCHANGED << labels, embedding_typmod, blast, sres, viewVars >>

\* SELECT title, body FROM issues WHERE id = $1
process_job_fetch_issue(w) ==
  /\ wpc[w] = "fetch_issue"
  /\ LET record == {r \in issues : r.id = wjob[w].issue_id}
     IN IF record = {}
        THEN /\ Finish(w, "not_found", FALSE)
             /\ UNCHANGED << computed, faults >>
        ELSE LET r == CHOOSE x \in record : TRUE
             IN IF ~wjob[w].force
                THEN /\ wjob' = [wjob EXCEPT ![w].title = r.title,
                                             ![w].body = r.body]
                     /\ wpc' = [wpc EXCEPT ![w] = "check_existing"]
                     /\ UNCHANGED << queue, last, computed, faults >>
                ELSE Compute(w, r.title, r.body)
  /\ UNCHANGED << issue_vectors_columns, dbVars, pushed, bootVars, delivered,
                  deliveries, tainted, unindexed, lastWrite >>
  /\ UNCHANGED << labels, embedding_typmod, blast, sres, viewVars >>

\* SELECT 1 FROM issue_vectors WHERE issue_id = $1
process_job_check_existing(w) ==
  /\ wpc[w] = "check_existing"
  /\ IF \E v \in issue_vectors : v.issue_id = wjob[w].issue_id
     THEN /\ Finish(w, "exists", FALSE)
          /\ UNCHANGED << computed, faults >>
     ELSE Compute(w, wjob[w].title, wjob[w].body)
  /\ UNCHANGED << issue_vectors_columns, dbVars, pushed, bootVars, delivered,
                  deliveries, tainted, unindexed, lastWrite >>
  /\ UNCHANGED << labels, embedding_typmod, blast, sres, viewVars >>


\* INSERT INTO issue_vectors (issue_id, embedding, model, updpated_at) ...
\* ON CONFLICT (issue_id) DO UPDATE SET ...; committed on its own
process_job_upsert(w) ==
  /\ wpc[w] = "upsert"
  /\ LET row == [issue_id |-> wjob[w].issue_id,
                 embedding |-> wjob[w].vector,
                 model |-> DEFAULT_MODEL]
     IN IF ~StatementAccepted(WorkerInsertColumns \cup WorkerUpdateColumns)
        THEN /\ Finish(w, "UndefinedColumnError", TRUE)
             /\ UNCHANGED << issue_vectors, unindexed, lastWrite >>
        ELSE IF ~ \E r \in issues : r.id = row.issue_id
        THEN /\ Finish(w, "ForeignKeyViolationError", TRUE)
             /\ UNCHANGED << issue_vectors, unindexed, lastWrite >>
        ELSE /\ issue_vectors' = worker_upsert_vector(issue_vectors, row)
             /\ lastWrite' = {v \in lastWrite : v.issue_id # row.issue_id}
                               \cup {row}
             /\ unindexed' = unindexed \cup {row.issue_id}
             /\ wpc' = [wpc EXCEPT ![w] = "similar"]
             /\ UNCHANGED << queue, last, wjob >>
  /\ UNCHANGED << issue_vectors_columns, issues, next_id, similar, pushed,
                  bootVars, delivered, deliveries, faults, computed, tainted >>
  /\ UNCHANGED << labels, embedding_typmod, blast, sres, viewVars >>

\* INSERT INTO similar ... ON CONFLICT DO NOTHING; the store may fail
process_job_similar(w) ==
  /\ wpc[w] = "similar"
  /\ \E ok \in BOOLEAN :
       IF ok
       THEN \E S \in NearestSets(Candidates(wjob[w].issue_id), wjob[w].vector) :
              /\ similar' = insert_similar(similar, wjob[w].issue_id, S,
                                           wjob[w].vector)
              /\ unindexed' = unindexed \ {wjob[w].issue_id}
              /\ Finish(w, "updated", FALSE)
              /\ UNCHANGED faults
       ELSE /\ faults < MaxFaults
            /\ faults' = faults + 1
            /\ Finish(w, "store_error", TRUE)
            /\ UNCHANGED << similar, unindexed >>
  /\ UNCHANGED << issue_vectors_columns, issues, next_id, issue_vectors, pushed,
                  bootVars, delivered, deliveries, computed, tainted, lastWrite >>
  /\ UNCHANGED << labels, embedding_typmod, blast, sres, viewVars >>

\* the worker process dies while it holds a job (kill, OOM, host loss): the
\* message was removed by blpop and lives nowhere else
worker_crash(w) ==
  /\ Busy(w)
  /\ wpc' = [wpc EXCEPT ![w] = "terminated"]
  /\ wjob' = [wjob EXCEPT ![w] = NoJob]
  /\ last' = [last EXCEPT ![w] = "crashed"]
  /\ UNCHANGED << issue_vectors_columns, dbVars, queue, pushed, bootVars,
                  delivered, deliveries, faults, histVars >>
  /\ UNCHANGED << labels, embedding_typmod, blast, sres, viewVars >>

\* ---- retrieval ---------------------------------------------------------------
\* scores are fractions n/d with d > 0, compared by cross-multiplication
Rat(n, d) == [n |-> n, d |-> d]
RatEq(a, b) == a.n * b.d = b.n * a.d
RatLeq(a, b) == a.n * b.d <= b.n * a.d
RatLess(a, b) == a.n * b.d < b.n * a.d
RatAdd(a, b) == Rat(a.n * b.d + b.n * a.d, a.d * b.d)
RatMul(a, b) == Rat(a.n * b.n, a.d * b.d)
RatNeg(a) == Rat(0 - a.n, a.d)
Zero == Rat(0, 1)
One == Rat(1, 1)
Max(a, b) == IF a < b THEN b ELSE a

\* ORDER BY rank LIMIT n over a set of rows with a field rank: every order
\* the server may return, rows of equal rank in either order
RECURSIVE OrderByLimit(_, _)
OrderByLimit(R, n) ==
  IF n <= 0 \/ R = {}
  THEN {<<>>}
  ELSE UNION { { <<r>> \o t : t \in OrderByLimit(R \ {r}, n - 1) } :
               r \in {x \in R : \A y \in R : RatLeq(x.rank, y.rank)} }

Range(f) == {f[k] : k \in DOMAIN f}

\* mutant: the query without "WHERE iv.model = $1"
VectorRows_any_model(embedding, model) ==
  {[id |-> v.issue_id,
    distance |-> Distance(v.embedding, embedding),
    rank |-> Rat(Distance(v.embedding, embedding), 1)] :
     v \in {x \in issue_vectors : \E r \in issues : r.id = x.issue_id}}

\* FROM issue_vectors iv JOIN issues i ON i.id = iv.issue_id WHERE iv.model = $1
VectorRows(embedding, model) ==
  {[id |-> v.issue_id,
    distance |-> Distance(v.embedding, embedding),
    rank |-> Rat(Distance(v.embedding, embedding), 1)] :
     v \in {x \in issue_vectors :
              /\ x.model = model
              /\ \E r \in issues : r.id = x.issue_id}}

\* vector_search: score = max(1.0 - max(distance, 0.0), 0.0)
VectorSearchScore(distance) == Rat(Max(1 - Max(distance, 0), 0), 1)

\* every result list vector_search may return
vector_search_results(embedding, limit, model) ==
  { [k \in 1..Len(rows) |->
       [id |-> rows[k].id, distance |-> rows[k].distance,
        score |-> VectorSearchScore(rows[k].distance)]] :
    rows \in OrderByLimit(VectorRows(embedding, model), limit) }

\* hybrid_search, vector_candidates: 1 / (1 + (iv.embedding <-> $vector))
HybridVectorScore(distance) == Rat(1, 1 + distance)

\* every row set the vector_candidates subquery may yield
vector_candidates(embedding, limit, model) ==
  { { [issue_id |-> r.id, vector_score |-> HybridVectorScore(r.distance)] :
        r \in Range(rows) } :
    rows \in OrderByLimit(
              {[id |-> v.issue_id,
                distance |-> Distance(v.embedding, embedding),
                rank |-> Rat(Distance(v.embedding, embedding), 1)] :
                 v \in {x \in issue_vectors : x.model = model}}, limit) }

\* occurrences of the query term in the text the search_vector is built from
RECURSIVE Occurrences(_, _)
Occurrences(text, term) ==
  IF text = <<>> THEN 0
  ELSE (IF Head(text) = term THEN 1 ELSE 0) + Occurrences(Tail(text), term)

\* ts_rank_cd(search_vector, plainto_tsquery('english', $2)): a tenth per hit
ts_rank_cd(row, query) == Rat(Occurrences(row.title \o row.body, query), 10)

\* every row set the text_candidates subquery may yield
text_candidates(query, limit) ==
  { { [id |-> r.id, text_score |-> r.text_score] : r \in Range(rows) } :
    rows \in OrderByLimit(
              {[id |-> i.id, text_score |-> ts_rank_cd(i, query),
                rank |-> RatNeg(ts_rank_cd(i, query))] :
                 i \in {x \in issues : RatLess(Zero, ts_rank_cd(x, query))}},
              limit) }

\* COALESCE(score, 0) of the candidate row joined to an issue, if any
Coalesce(cands, id, field) ==
  IF \E c \in cands : c[field] = id
  THEN (CHOOSE c \in cands : c[field] = id)
  ELSE [vector_score |-> Zero, text_score |-> Zero]

\* mutant: the weights exchanged
blend_swapped(vector_score, text_score, alpha) ==
  RatAdd(RatMul(vector_score, RatAdd(One, RatNeg(alpha))),
         RatMul(text_score, alpha))

\* vector_score * alpha + text_score * (1 - alpha)
blend(vector_score, text_score, alpha) ==
  RatAdd(RatMul(vector_score, alpha),
         RatMul(text_score, RatAdd(One, RatNeg(alpha))))

\* mutant: inner joins, an issue must be on both sides
JoinedIssues_both(vc, tc) ==
  {i \in issues : /\ \E c \in vc : c.issue_id = i.id
                  /\ \E c \in tc : c.id = i.id}

\* FROM issues i LEFT JOIN ... WHERE vc.issue_id IS NOT NULL OR tc.id IS NOT NULL
JoinedIssues(vc, tc) ==
  {i \in issues : \/ \E c \in vc : c.issue_id = i.id
                  \/ \E c \in tc : c.id = i.id}

\* every result list hybrid_search may return from given candidate sets
hybrid_rows(vc, tc, limit, alpha) ==
  { [k \in 1..Len(rows) |->
       [id |-> rows[k].id,
        vector_score |-> rows[k].vector_score,
        text_score |-> rows[k].text_score,
        score |-> blend(rows[k].vector_score, rows[k].text_score, alpha)]] :
    rows \in OrderByLimit(
              {[id |-> i.id,
                vector_score |-> Coalesce(vc, i.id, "issue_id").vector_score,
                text_score |-> Coalesce(tc, i.id, "id").text_score,
                rank |-> RatNeg(blend(Coalesce(vc, i.id, "issue_id").vector_score,
                                      Coalesce(tc, i.id, "id").text_score,
                                      alpha))] :
                 i \in JoinedIssues(vc, tc)}, limit) }

\* search requests
QueryEmbeddings == {10, 13}
QueryTerms == {6, 7, 99}
Alphas == {Rat(0, 1), Rat(1, 2), Rat(1, 1)}
Limits == 0..MaxLimit

\* sres records one call: the call a behaviour observes
vector_search(embedding, limit, model) ==
  /\ sres = NoSearch
  /\ \E rows \in vector_search_results(embedding, limit, model) :
       sres' = [op |-> "vector", embedding |-> embedding, query |-> 0,
                limit |-> limit, alpha |-> Zero, model |-> model,
                vc |-> {}, tc |-> {}, rows |-> rows]
  /\ UNCHANGED << issue_vectors_columns, dbVars, queue, pushed, workerVars,
                  bootVars, delivered, deliveries, faults, histVars, labels,
                  embedding_typmod, blast, viewVars >>

hybrid_search(embedding, query, limit, alpha, model) ==
  /\ sres = NoSearch
  /\ \E vc \in vector_candidates(embedding, limit, model) :
     \E tc \in text_candidates(query, limit) :
     \E rows \in hybrid_rows(vc, tc, limit, alpha) :
       sres' = [op |-> "hybrid", embedding |-> embedding, query |-> query,
                limit |-> limit, alpha |-> alpha, model |-> model,
                vc |-> vc, tc |-> tc, rows |-> rows]
  /\ UNCHANGED << issue_vectors_columns, dbVars, queue, pushed, workerVars,
                  bootVars, delivered, deliveries, faults, histVars, labels,
                  embedding_typmod, blast, viewVars >>

\* ---- canonical addressing (api/services/retrieve.py) ----------------------
\* A string of the viewer is a sequence of tokens: a word of letters, a run
\* of digits, or one other character.  None and "" are both <<>>: the code
\* tests such values with "if value".
NoText == <<>>
DigitTokens == {"1", "2", "5", "7"}
Whitespace == {" ", "\n"}

\* str.isdigit()
isdigit(s) == s # <<>> /\ \A k \in 1..Len(s) : s[k] \in DigitTokens

\* str.find / str.rfind of one character: its index, 0 when absent
Find(s, c) ==
  IF \E k \in 1..Len(s) : s[k] = c
  THEN CHOOSE k \in 1..Len(s) : s[k] = c /\ \A j \in 1..(k - 1) : s[j] # c
  ELSE 0
RFind(s, c) ==
  IF \E k \in 1..Len(s) : s[k] = c
  THEN CHOOSE k \in 1..Len(s) : s[k] = c /\ \A j \in (k + 1)..Len(s) : s[j] # c
  ELSE 0

\* s.split(c, 1)
Split1(s, c) ==
  LET k == Find(s, c)
  IN IF k = 0 THEN <<s>> ELSE <<SubSeq(s, 1, k - 1), SubSeq(s, k + 1, Len(s))>>

\* [segment for segment in s.split(c) if segment]
RECURSIVE Segments(_, _)
Segments(s, c) ==
  IF s = <<>> THEN <<>>
  ELSE LET k == Find(s, c)
       IN IF k = 0 THEN <<s>>
          ELSE (IF k = 1 THEN <<>> ELSE <<SubSeq(s, 1, k - 1)>>)
               \o Segments(SubSeq(s, k + 1, Len(s)), c)

\* str.strip()
RECURSIVE strip(_)
strip(s) ==
  IF s = <<>> THEN s
  ELSE IF Head(s) \in Whitespace THEN strip(Tail(s))
  ELSE IF s[Len(s)] \in Whitespace THEN strip(SubSeq(s, 1, Len(s) - 1))
  ELSE s

\* dataset records of the sandbox files, by the fields addressing reads;
\* number is str(number), <<>> when the record has no int number
RepoValues ==
  {NoText, <<"repo">>, <<"sandbox", "/", "repo">>, <<"org", "/", "repo">>}
ViewerGithubRecords ==
  {[repo |-> r, projectKey |-> NoText, number |-> n,
    id |-> <<"github", "_", "x">>, self |-> NoText, site |-> NoText] :
     r \in RepoValues, n \in {NoText, <<"1">>, <<"2">>}}
JiraSelf == <<"https://", "acme", ".", "atlassian", ".", "net", "/", "rest">>
ViewerJiraRecords ==
  {[repo |-> NoText, projectKey |-> p, number |-> n,
    id |-> <<"jira", "_", "x">>, self |-> u, site |-> NoText] :
     p \in {NoText, <<"ABC">>}, n \in {NoText, <<"1">>},
     u \in {NoText, JiraSelf}}
ViewerRecords(flavor) ==
  IF flavor = "github" THEN ViewerGithubRecords ELSE ViewerJiraRecords

\* _make_payload, the fields addressing reads: source, external_key, repo,
\* project and raw_json (the record itself)
IssuePayload(record, flavor) ==
  IF flavor = "github"
  THEN [source |-> flavor,
        external_key |->
          IF record.number # NoText
          THEN (IF record.repo # NoText THEN record.repo ELSE <<"sandbox">>)
               \o <<"#">> \o record.number
          ELSE record.id,
        repo |-> record.repo,
        project |-> NoText,
        raw_json |-> record]
  ELSE [source |-> flavor,
        external_key |->
          IF record.projectKey # NoText /\ record.number # NoText
          THEN record.projectKey \o <<"-">> \o record.number
          ELSE record.id,
        repo |-> NoText,
        project |-> record.projectKey,
        raw_json |-> record]

\* _upsert_issue: INSERT ... ON CONFLICT (source, external_key) DO UPDATE SET
\* repo, project, raw_json ...; RETURNING id.  Rows are never deleted here,
\* so the serial is one more than the number of rows.
_upsert_issue(rows, payload) ==
  LET hit == {r \in rows : r.source = payload.source
                           /\ r.external_key = payload.external_key}
  IN IF hit = {}
     THEN rows \cup {[id |-> Cardinality(rows) + 1,
                      source |-> payload.source,
                      external_key |-> payload.external_key,
                      repo |-> payload.repo,
                      project |-> payload.project,
                      raw_json |-> payload.raw_json]}
     ELSE (rows \ hit) \cup
          {[r EXCEPT !.repo = payload.repo, !.project = payload.project,
                     !.raw_json = payload.raw_json] : r \in hit}

\* owner and repo from "owner/repo", or ("sandbox", name) without a slash
OwnerRepo(value) ==
  IF Find(value, "/") # 0
  THEN [owner |-> Split1(value, "/")[1], repo |-> Split1(value, "/")[2]]
  ELSE [owner |-> <<"sandbox">>, repo |-> value]

\* _github_repo_parts: the repo column, then raw["repo"] (a dataset record
\* has no "repository" mapping), then the literal fallback
_github_repo_parts(repo_value, raw) ==
  IF repo_value # NoText THEN OwnerRepo(repo_value)
  ELSE IF raw.repo # NoText THEN OwnerRepo(raw.repo)
  ELSE [owner |-> <<"sandbox">>, repo |-> <<"unknown">>]

\* _issue_number_from_row: the digits after the last "#" of external_key,
\* else raw["number"] (a dataset record has no "issue" mapping)
_issue_number_from_row(row, raw) ==
  LET k == RFind(row.external_key, "#")
      tail == strip(SubSeq(row.external_key, k + 1, Len(row.external_key)))
  IN IF row.external_key # NoText /\ k # 0 /\ isdigit(tail) THEN tail
     ELSE IF isdigit(raw.number) THEN raw.number
     ELSE NoText

\* urlparse(candidate).hostname: between the scheme and the first "/"
hostname(url) ==
  IF url = NoText \/ Head(url) \notin {"https://", "http://"} THEN NoText
  ELSE Split1(Tail(url), "/")[1]

\* _jira_site: the leading label of the host of raw["self"], else
\* raw["site"], else "sandbox"
_jira_site(raw) ==
  IF raw.self # NoText /\ hostname(raw.self) # NoText
  THEN Split1(hostname(raw.self), ".")[1]
  ELSE IF raw.site # NoText THEN raw.site
  ELSE <<"sandbox">>

NoRoute == [source |-> "", route |-> NoText]

\* _build_canonical_route
_build_canonical_route(row, raw) ==
  IF row.source = "github"
  THEN LET parts == _github_repo_parts(row.repo, raw)
           number == _issue_number_from_row(row, raw)
       IN IF number = NoText THEN NoRoute
          ELSE [source |-> "github",
                route |-> <<"/", "gh", "/">> \o parts.owner \o <<"/">>
                          \o parts.repo \o <<"/", "issues", "/">> \o number]
  ELSE IF row.source = "jira"
  THEN IF row.external_key = NoText THEN NoRoute
       ELSE LET key == row.external_key
                project == IF row.project # NoText THEN row.project
                           ELSE Split1(key, "-")[1]
            IN [source |-> "jira",
                route |-> <<"/", "jira", "/">> \o _jira_site(raw) \o <<"/">>
                          \o project \o <<"/">> \o key]
  ELSE NoRoute

\* _project_issue_record: None without a route, else the record (id, route)
_project_issue_record(row) ==
  LET route_info == _build_canonical_route(row, row.raw_json)
  IN IF route_info = NoRoute THEN NoView
     ELSE [op |-> "record", route |-> route_info.route, routes |-> <<>>,
           id |-> row.id]

\* _parse_route
NoParse == [source |-> "", keys |-> {}]
_parse_route(route) ==
  LET normalized == IF route # NoText /\ Head(route) = "/" THEN route
                    ELSE <<"/">> \o route
      parts == Segments(normalized, "/")
  IN IF route = NoText THEN NoParse
     ELSE IF Len(parts) >= 5 /\ parts[1] = <<"gh">> /\ parts[4] = <<"issues">>
     THEN [source |-> "github",
           keys |-> {parts[2] \o <<"/">> \o parts[3] \o <<"#">> \o parts[5],
                     parts[3] \o <<"#">> \o parts[5]}]
     ELSE IF Len(parts) >= 4 /\ parts[1] = <<"jira">>
     THEN [source |-> "jira", keys |-> {parts[4]}]
     ELSE NoParse

\* the rows in ORDER BY id
RECURSIVE ById(_)
ById(rows) ==
  IF rows = {} THEN <<>>
  ELSE LET r == CHOOSE x \in rows : \A y \in rows : x.id <= y.id
       IN <<r>> \o ById(rows \ {r})

\* list(dict.fromkeys(routes)): first occurrences, in order
RECURSIVE Dedup(_)
Dedup(s) ==
  IF s = <<>> THEN s
  ELSE LET init == Dedup(SubSeq(s, 1, Len(s) - 1))
           x == s[Len(s)]
       IN IF \E k \in 1..Len(init) : init[k] = x THEN init
          ELSE Append(init, x)

\* the routes list_canonical_routes collects before removing duplicates
RECURSIVE RoutesOf(_)
RoutesOf(rows) ==
  IF rows = <<>> THEN <<>>
  ELSE LET info == _build_canonical_route(Head(rows), Head(rows).raw_json)
       IN (IF info = NoRoute THEN <<>> ELSE <<info.route>>)
          \o RoutesOf(Tail(rows))

\* bootstrap: one record of a dataset file is upserted
viewer_load(flavor, record) ==
  /\ vres = NoView
  /\ LET rows == _upsert_issue(catalog, IssuePayload(record, flavor))
     IN /\ Cardinality(rows) <= MaxCatalog
        /\ catalog' = rows
  /\ UNCHANGED << issue_vectors_columns, dbVars, queue, pushed, workerVars,
                  bootVars, delivered, deliveries, faults, histVars, labels,
                  embedding_typmod, blast, sres, vres, doc, prop >>

\* list_canonical_routes
list_canonical_routes ==
  /\ vres = NoView
  /\ vres' = [op |-> "list", route |-> NoText,
              routes |-> Dedup(RoutesOf(ById(catalog))), id |-> 0]
  /\ UNCHANGED << issue_vectors_columns, dbVars, queue, pushed, workerVars,
                  bootVars, delivered, deliveries, faults, histVars, labels,
                  embedding_typmod, blast, sres, catalog, doc, prop >>

\* fetch_issue_by_route: WHERE source = $1 AND external_key = ANY($2)
\* ORDER BY id LIMIT 1, then _project_issue_record
fetch_issue_by_route(route) ==
  /\ vres = NoView
  /\ LET parsed == _parse_route(route)
         found == {r \in catalog : /\ r.source = parsed.source
                                   /\ r.external_key \in parsed.keys}
         projected == IF parsed = NoParse \/ found = {} THEN NoView
                      ELSE _project_issue_record(ById(found)[1])
     IN vres' = [op |-> "fetch", route |-> route, routes |-> <<>>,
                 id |-> projected.id,
                 found |-> projected.route]
  /\ UNCHANGED << issue_vectors_columns, dbVars, queue, pushed, workerVars,
                  bootVars, delivered, deliveries, faults, histVars, labels,
                  embedding_typmod, blast, sres, catalog, doc, prop >>

\* the routes a caller asks for: those of the stored issues, and one of
\* neither tracker
CallerRoutes ==
  {_build_canonical_route(r, r.raw_json).route : r \in catalog}
  \cup {<<"/", "x">>}

\* ---- origin-safe rendering (api/services/retrieve.py) ---------------------
\* HTML is a sequence of tokens too, every character of markup its own token
Drop(s, n) == SubSeq(s, n + 1, Len(s))
StartsWith(s, prefix) ==
  Len(s) >= Len(prefix) /\ SubSeq(s, 1, Len(prefix)) = prefix

\* s.split(c): every segment, empty ones too
RECURSIVE SplitAll(_, _)
SplitAll(s, c) ==
  LET k == Find(s, c)
  IN IF k = 0 THEN <<s>>
     ELSE <<SubSeq(s, 1, k - 1)>> \o SplitAll(Drop(s, k), c)

\* c.join(parts)
RECURSIVE Join(_, _)
Join(parts, c) ==
  IF parts = <<>> THEN <<>>
  ELSE IF Len(parts) = 1 THEN parts[1]
  ELSE parts[1] \o <<c>> \o Join(Tail(parts), c)

RECURSIVE Concat(_)
Concat(parts) ==
  IF parts = <<>> THEN <<>> ELSE Head(parts) \o Concat(Tail(parts))

\* html.escape(s, quote=True)
EscapeToken(c) ==
  CASE c = "&" -> "&amp;"
    [] c = "<" -> "&lt;"
    [] c = ">" -> "&gt;"
    [] c = "\"" -> "&quot;"
    [] c = "'" -> "&#x27;"
    [] OTHER -> c
html_escape(s) == [k \in 1..Len(s) |-> EscapeToken(s[k])]

Schemes == {"https://", "http://"}
\* [^\s<>]
UrlChar(c) == c \notin Whitespace \cup {"<", ">"}

\* _URL_RE.finditer: the first match at or after position k, as [start, end],
\* start = 0 when there is none
RECURSIVE _URL_RE(_, _)
_URL_RE(text, k) ==
  IF k >= Len(text) THEN [start |-> 0, end |-> 0]
  ELSE IF text[k] \in Schemes /\ UrlChar(text[k + 1])
  THEN [start |-> k,
        end |-> CHOOSE e \in (k + 1)..Len(text) :
                  /\ \A j \in (k + 1)..e : UrlChar(text[j])
                  /\ (e = Len(text) \/ ~UrlChar(text[e + 1]))]
  ELSE _URL_RE(text, k + 1)

\* url.rstrip(".,);")
RECURSIVE rstrip(_)
rstrip(url) ==
  IF url # <<>> /\ url[Len(url)] \in {".", ",", ")", ";"}
  THEN rstrip(SubSeq(url, 1, Len(url) - 1))
  ELSE url

\* (?:[?#/].*)?$ : nothing, or a rest that starts with one of ? # /
Trailer(rest) == rest = <<>> \/ Head(rest) \in {"?", "#", "/"}

\* the length of the longest run of tokens of class, from the start of s
RunLength(s, class) ==
  IF s = <<>> \/ s[1] \notin class THEN 0
  ELSE CHOOSE n \in 1..Len(s) :
         /\ \A j \in 1..n : s[j] \in class
         /\ (n = Len(s) \/ s[n + 1] \notin class)

NoMatch == [matched |-> FALSE, groups |-> <<>>]
\* the tokens of the texts, and those of [^/]
Tokens ==
  Whitespace \cup Schemes \cup DigitTokens \cup
  {"/", "#", "?", ".", ",", ")", ";", "<", ">", "&", "\"", "'", "-", "_", "=",
   "github.com", "example.com", ".atlassian.net", "a", "b", "x", "ABC",
   "See", "issues", "browse", "docs", "href"}
NotSlash == Tokens \ {"/"}

\* _GITHUB_ISSUE_RE.match(url): the groups (owner, repo, number)
_GITHUB_ISSUE_RE(url) ==
  IF ~StartsWith(url, <<"https://", "github.com", "/">>) THEN NoMatch
  ELSE LET s1 == Drop(url, 3)
           n1 == RunLength(s1, NotSlash)
           s2 == Drop(s1, n1 + 1)
           n2 == RunLength(s2, NotSlash)
           s3 == Drop(s2, n2)
           s4 == Drop(s3, 3)
           n4 == RunLength(s4, DigitTokens)
       IN IF /\ n1 > 0 /\ n2 > 0
             /\ StartsWith(s3, <<"/", "issues", "/">>)
             /\ n4 > 0
             /\ Trailer(Drop(s4, n4))
          THEN [matched |-> TRUE,
                groups |-> << SubSeq(s1, 1, n1), SubSeq(s2, 1, n2),
                              SubSeq(s4, 1, n4) >>]
          ELSE NoMatch

\* [A-Za-z0-9-] and [A-Za-z0-9_-]: words, digits and the hyphen (underscore)
Alnum == DigitTokens \cup {"a", "b", "x", "ABC", "See", "issues", "browse",
                           "docs", "href"}
IsAlnum(c) == c \in Alnum
SiteChar == Alnum \cup {"-"}
KeyChar == Alnum \cup {"-", "_"}

\* _JIRA_ISSUE_RE.match(url): the groups (site, key)
_JIRA_ISSUE_RE(url) ==
  IF url = <<>> \/ Head(url) # "https://" THEN NoMatch
  ELSE LET s1 == Tail(url)
           n1 == RunLength(s1, SiteChar)
           s2 == Drop(s1, n1)
           s3 == Drop(s2, 4)
           n3 == RunLength(s3, KeyChar)
           key == SubSeq(s3, 1, n3)
           d == RFind(key, "-")
       IN IF /\ n1 > 0
             /\ StartsWith(s2, <<".atlassian.net", "/", "browse", "/">>)
             /\ n3 > 0
             /\ IsAlnum(key[1])
             /\ d > 1
             /\ isdigit(Drop(key, d))
             /\ Trailer(Drop(s3, n3))
          THEN [matched |-> TRUE, groups |-> << SubSeq(s1, 1, n1), key >>]
          ELSE NoMatch

\* mutant: every URL is taken for a tracker link
_rewrite_url_always_internal(url) ==
  [href |-> <<"/", "gh", "/">> \o url, is_internal |-> TRUE]

\* mutant: no URL is rewritten
_rewrite_url_never(url) == [href |-> url, is_internal |-> FALSE]

\* _rewrite_url
_rewrite_url(url) ==
  LET github == _GITHUB_ISSUE_RE(url)
      jira == _JIRA_ISSUE_RE(url)
  IN IF url = <<>> THEN [href |-> url, is_internal |-> FALSE]
     ELSE IF github.matched
     THEN [href |-> <<"/", "gh", "/">> \o github.groups[1] \o <<"/">>
                    \o github.groups[2] \o <<"/", "issues", "/">>
                    \o github.groups[3],
           is_internal |-> TRUE]
     ELSE IF jira.matched
     THEN [href |-> <<"/", "jira", "/">> \o jira.groups[1] \o <<"/">>
                    \o Split1(jira.groups[2], "-")[1] \o <<"/">>
                    \o jira.groups[2],
           is_internal |-> TRUE]
     ELSE [href |-> url, is_internal |-> FALSE]

\* the markup the renderer writes
A_OPEN == <<"<", "a", " ", "href", "=", "\"">>
REL ==
  <<" ", "rel", "=", "\"", "nofollow", " ", "noopener", " ", "noreferrer",
    "\"">>
A_CLOSE == <<"<", "/", "a", ">">>
BR == <<"<", "br", " ", "/", ">">>
P_OPEN == <<"<", "p", ">">>
P_CLOSE == <<"<", "/", "p", ">">>

\* mutant: the text between the links is written as it is
EscapeText_raw(s) == s

\* html.escape of the text outside the links
EscapeText(s) == html_escape(s)

\* the loop of _linkify_text from position k on: "".join(parts)
RECURSIVE LinkifyFrom(_, _)
LinkifyFrom(text, k) ==
  LET m == _URL_RE(text, k)
  IN IF m.start = 0 THEN EscapeText(Drop(text, k - 1))
     ELSE LET url == SubSeq(text, m.start, m.end)
              trimmed == rstrip(url)
              suffix == Drop(url, Len(trimmed))
              rw == _rewrite_url(trimmed)
          IN EscapeText(SubSeq(text, k, m.start - 1))
             \o A_OPEN \o html_escape(rw.href) \o <<"\"">>
             \o (IF rw.is_internal THEN <<>> ELSE REL)
             \o <<">">> \o html_escape(trimmed) \o A_CLOSE
             \o EscapeText(suffix)
             \o LinkifyFrom(text, m.end + 1)

\* str.replace("\n", "<br />\n")
RECURSIVE ReplaceNewlines(_)
ReplaceNewlines(s) ==
  IF s = <<>> THEN s
  ELSE (IF Head(s) = "\n" THEN BR \o <<"\n">> ELSE <<Head(s)>>)
       \o ReplaceNewlines(Tail(s))

\* _linkify_text
_linkify_text(text) ==
  IF text = <<>> THEN <<>> ELSE ReplaceNewlines(LinkifyFrom(text, 1))

\* the paragraphs of _render_text_block: runs of lines that are not blank
RECURSIVE Paragraphs(_, _)
Paragraphs(lines, buffer) ==
  IF lines = <<>>
  THEN (IF buffer = <<>> THEN <<>> ELSE <<Join(buffer, "\n")>>)
  ELSE IF strip(Head(lines)) # <<>>
  THEN Paragraphs(Tail(lines), Append(buffer, Head(lines)))
  ELSE (IF buffer = <<>> THEN <<>> ELSE <<Join(buffer, "\n")>>)
       \o Paragraphs(Tail(lines), <<>>)

\* _render_text_block
_render_text_block(text) ==
  IF text = <<>> THEN <<>>
  ELSE LET found == Paragraphs(SplitAll(text, "\n"), <<>>)
           paragraphs == IF found = <<>> THEN << <<>> >> ELSE found
       IN Concat([k \in 1..Len(paragraphs) |->
                    P_OPEN \o _linkify_text(paragraphs[k]) \o P_CLOSE])

\* pieces of issue and comment text
GITHUB_URL ==
  <<"https://", "github.com", "/", "a", "/", "b", "/", "issues", "/", "5">>
JIRA_URL ==
  <<"https://", "x", ".atlassian.net", "/", "browse", "/", "ABC", "-", "7">>
MALFORMED_URL ==
  <<"https://", "github.com", "/", "a", "/", "issues", "/", "5">>
PLAIN_HTTP_URL ==
  <<"http://", "github.com", "/", "a", "/", "b", "/", "issues", "/", "5">>
OTHER_URL == <<"https://", "example.com", "/", "docs">>
HTML_LINK ==
  <<"<", "a", " ", "href", "=", "\"">> \o OTHER_URL
  \o <<"\"", ">", "See", "<", "/", "a", ">">>
TWO_PARAGRAPHS == <<"See", "\n", " ", "\n", "7", "\n", "<">>
Chunks ==
  {GITHUB_URL, JIRA_URL, MALFORMED_URL, PLAIN_HTTP_URL, OTHER_URL, HTML_LINK,
   TWO_PARAGRAPHS}
  \cup {<<"See", " ">>}
  \cup {<<c>> : c \in {" ", "\n", "<", ">", "&", "\"", "'", ".", "/", "See",
                       "7"}}

\* texts of up to n pieces
RECURSIVE TextsOf(_)
TextsOf(n) ==
  IF n = 0 THEN {<<>>}
  ELSE LET shorter == TextsOf(n - 1)
       IN shorter \cup {t \o c : t \in shorter, c \in Chunks}
Texts == TextsOf(MaxChunks)
CommentTexts == {<<>>, HTML_LINK, GITHUB_URL \o <<"&">>}

\* a text of an issue and a text of a comment are at hand
InitRender ==
  /\ InitStore(get_sentence_embedding_dimension(DEFAULT_MODEL))
  /\ \E text \in Texts, comment \in CommentTexts :
       doc = [NoDoc EXCEPT !.op = "input", !.text = text,
                           !.comment = comment]

\* _linkify_text on the text
linkify ==
  /\ doc.op = "input"
  /\ doc' = [doc EXCEPT !.op = "linkify", !.html = _linkify_text(doc.text)]
  /\ UNCHANGED << issue_vectors_columns, dbVars, queue, pushed, workerVars,
                  bootVars, delivered, deliveries, faults, histVars, labels,
                  embedding_typmod, blast, sres, catalog, vres, prop >>

\* _project_issue_record: body_html, and _extract_comments: the body_html of
\* a comment
render_issue ==
  /\ doc.op = "input"
  /\ doc' = [doc EXCEPT !.op = "render",
                        !.html = _render_text_block(doc.text),
                        !.comment_html = _render_text_block(doc.comment)]
  /\ UNCHANGED << issue_vectors_columns, dbVars, queue, pushed, workerVars,
                  bootVars, delivered, deliveries, faults, histVars, labels,
                  embedding_typmod, blast, sres, catalog, vres, prop >>

\* ---- proposal assembler (api/services/triage.py) --------------------------
NoModelName == ""
NO_OP == "NoOpReranker"
STUB == "StubReranker"
Rerankers == {NO_OP, STUB}

RECURSIVE Reversed(_)
Reversed(s) == IF s = <<>> THEN s ELSE Append(Reversed(Tail(s)), Head(s))

\* reranker.rerank(query, candidates): NoOpReranker returns the candidates,
\* the stub of the tests returns them reversed
rerank(reranker, query, candidates) ==
  IF reranker = NO_OP THEN candidates ELSE Reversed(candidates)

\* mutant: the model given is ignored
model_or_default_ignored(model_name) == DEFAULT_MODEL

\* model_name or DEFAULT_MODEL
model_or_default(model_name) ==
  IF model_name = NoModelName THEN DEFAULT_MODEL ELSE model_name

NoCall ==
  [fn |-> "none", embedding |-> 0, limit |-> 0, model |-> NoModelName,
   query |-> "", candidates |-> <<>>]

\* propose up to "neighbors = await vector_search(...)"
propose(embedding, reranker, top_k, model_name) ==
  /\ prop.pc = "idle"
  /\ \E rows \in vector_search_results(embedding, top_k,
                                       model_or_default(model_name)) :
       prop' = [prop EXCEPT
                  !.pc = "rerank",
                  !.embedding = embedding,
                  !.reranker = reranker,
                  !.top_k = top_k,
                  !.model_name = model_name,
                  !.calls = Append(@, [NoCall EXCEPT
                                         !.fn = "vector_search",
                                         !.embedding = embedding,
                                         !.limit = top_k,
                                         !.model = model_or_default(model_name)]),
                  !.neighbors = rows]
  /\ UNCHANGED << issue_vectors_columns, dbVars, queue, pushed, workerVars,
                  bootVars, delivered, deliveries, faults, histVars, labels,
                  embedding_typmod, blast, sres, catalog, vres, doc >>

\* propose from "reranked = await reranker.rerank(...)" to its return
propose_return ==
  /\ prop.pc = "rerank"
  /\ LET reranked == rerank(prop.reranker, "issue_triage", prop.neighbors)
     IN prop' = [prop EXCEPT
                   !.pc = "done",
                   !.calls = Append(@, [NoCall EXCEPT
                                          !.fn = "rerank",
                                          !.query = "issue_triage",
                                          !.candidates = prop.neighbors]),
                   !.labels = <<"needs-triage">>,
                   !.assignee_candidates = <<>>,
                   !.similar = reranked]
  /\ UNCHANGED << issue_vectors_columns, dbVars, queue, pushed, workerVars,
                  bootVars, delivered, deliveries, faults, histVars, labels,
                  embedding_typmod, blast, sres, catalog, vres, doc >>

ModelNames == Models \cup {NoModelName}

\* ---- specification ----------------------------------------------------------
Next ==
  \/ \E force \in BOOLEAN : ensure_sample_data(force)
  \/ ensure_sample_data_load
  \/ \E model \in Models, force \in BOOLEAN : ensure_embeddings(model, force)
  \/ ensure_embeddings_write
  \/ \E i \in JobIssueIds, force \in BOOLEAN : enqueue_embedding_job(i, force)
  \/ \E raw \in ForeignMessages : foreign_rpush(raw)
  \/ \E e \in GithubEvents, p \in WebhookPayloads : handle_github(e, p)
  \/ \E p \in WebhookPayloads : handle_jira(p)
  \/ \E w \in Workers : worker_blpop(w)
  \/ \E w \in Workers : process_job_fetch_issue(w)
  \/ \E w \in Workers : process_job_check_existing(w)
  \/ \E w \in Workers : process_job_upsert(w)
  \/ \E w \in Workers : process_job_similar(w)

Spec == Init /\ [][Next]_vars

\* the indexing side alone: bootstrap, producer and workers
NextWorker ==
  \/ \E force \in BOOLEAN : ensure_sample_data(force)
  \/ ensure_sample_data_load
  \/ \E model \in Models, force \in BOOLEAN : ensure_embeddings(model, force)
  \/ ensure_embeddings_write
  \/ \E i \in JobIssueIds, force \in BOOLEAN : enqueue_embedding_job(i, force)
  \/ \E w \in Workers : worker_blpop(w)
  \/ \E w \in Workers : process_job_fetch_issue(w)
  \/ \E w \in Workers : process_job_check_existing(w)
  \/ \E w \in Workers : process_job_upsert(w)
  \/ \E w \in Workers : process_job_similar(w)

SpecWorker == Init /\ [][NextWorker]_vars

\* the indexing side with worker processes that may die
NextCrash ==
  \/ \E force \in BOOLEAN : ensure_sample_data(force)
  \/ ensure_sample_data_load
  \/ \E model \in Models, force \in BOOLEAN : ensure_embeddings(model, force)
  \/ ensure_embeddings_write
  \/ \E i \in JobIssueIds, force \in BOOLEAN : enqueue_embedding_job(i, force)
  \/ \E w \in Workers : worker_blpop(w)
  \/ \E w \in Workers : process_job_fetch_issue(w)
  \/ \E w \in Workers : process_job_check_existing(w)
  \/ \E w \in Workers : process_job_upsert(w)
  \/ \E w \in Workers : process_job_similar(w)
  \/ \E w \in Workers : worker_crash(w)

SpecCrash == Init /\ [][NextCrash]_vars

\* the bootstrap CLI alone, on any of the schemas and with any of the models
NextLoad ==
  \/ \E force \in BOOLEAN : ensure_sample_data(force)
  \/ ensure_sample_data_load
  \/ \E model \in LoadModels, force \in BOOLEAN : ensure_embeddings(model, force)
  \/ ensure_embeddings_write

SpecLoad == InitLoad /\ [][NextLoad]_vars

\* the search API over the store the bootstrap builds
NextSearch ==
  \/ \E force \in BOOLEAN : ensure_sample_data(force)
  \/ ensure_sample_data_load
  \/ \E model \in Models, force \in BOOLEAN : ensure_embeddings(model, force)
  \/ ensure_embeddings_write
  \/ \E e \in QueryEmbeddings, l \in Limits, m \in Models :
       vector_search(e, l, m)
  \/ \E e \in QueryEmbeddings, q \in QueryTerms, l \in Limits, a \in Alphas,
        m \in Models : hybrid_search(e, q, l, a, m)

SpecSearch == Init /\ [][NextSearch]_vars

\* one pass through the pipeline: sample issues loaded once, jobs enqueued
\* without force, workers, then a vector search under the worker's model
NextE2E ==
  \/ ensure_sample_data(FALSE)
  \/ ensure_sample_data_load
  \/ \E i \in JobIssueIds : enqueue_embedding_job(i, FALSE)
  \/ \E w \in Workers : worker_blpop(w)
  \/ \E w \in Workers : process_job_fetch_issue(w)
  \/ \E w \in Workers : process_job_check_existing(w)
  \/ \E w \in Workers : process_job_upsert(w)
  \/ \E w \in Workers : process_job_similar(w)
  \/ \E e \in QueryEmbeddings, l \in Limits : vector_search(e, l, DEFAULT_MODEL)

SpecE2E == Init /\ [][NextE2E]_vars

\* the viewer over the rows the sandbox bootstrap loads
NextView ==
  \/ \E f \in {"github", "jira"} : \E rec \in ViewerRecords(f) :
       viewer_load(f, rec)
  \/ list_canonical_routes
  \/ \E route \in CallerRoutes : fetch_issue_by_route(route)

SpecView == Init /\ [][NextView]_vars

\* the renderer on the texts an issue or a comment may hold
NextRender ==
  \/ linkify
  \/ render_issue

SpecRender == InitRender /\ [][NextRender]_vars

\* the proposal endpoint over the store the bootstrap builds
NextTriage ==
  \/ \E force \in BOOLEAN : ensure_sample_data(force)
  \/ ensure_sample_data_load
  \/ \E model \in Models, force \in BOOLEAN : ensure_embeddings(model, force)
  \/ ensure_embeddings_write
  \/ \E e \in QueryEmbeddings, r \in Rerankers, k \in Limits,
        m \in ModelNames : propose(e, r, k, m)
  \/ propose_return

SpecTriage == Init /\ [][NextTriage]_vars

TypeOK ==
  /\ \A w \in Workers : wpc[w] \in {"blpop", "fetch_issue", "check_existing",
                                     "upsert", "similar", "terminated"}
  /\ bpc \in {"idle", "load_github", "load_jira", "emb_write"}
  /\ pushed \in 0..MaxJobs
  /\ Len(queue) <= MaxJobs


\* ---- claims -------------------------------------------------------------------
Drained == queue = <<>> /\ \A w \in Workers : ~Busy(w)

VectorsOf(issue_id) == {v \in issue_vectors : v.issue_id = issue_id}
EdgesOf(issue_id) == {e \in similar : e.issue_id = issue_id}
IssueExists(issue_id) == \E r \in issues : r.id = issue_id

\* C1: once the queue is drained, an issue that has an EmbeddingRecord and
\* was re-ingested by a webhook with a changed title or body holds the
\* delivered title and body, and its record is their embedding.
C1_ReingestReembeds ==
  Drained =>
    \A d \in delivered : \A r \in issues :
      (r.source = d.source /\ r.external_key = d.external_key) =>
        \A v \in VectorsOf(r.id) :
          /\ r.title = d.title
          /\ r.body = d.body
          /\ v.embedding = encode_texts(IssueText(d.title, d.body), v.model)

\* C10: no message taken from triage:embed, whatever its content, ends a
\* worker's consume loop.
C10_LoopSurvivesAnyMessage == \A w \in Workers : wpc[w] # "terminated"


\* how a job that raised ended
Errors ==
  {"provider_error", "store_error", "UndefinedColumnError",
   "ForeignKeyViolationError"}

\* failures of the provider or the store, as opposed to a rejected statement
Outages == {"provider_error", "store_error"}

\* C2: a job with force=false for an issue that already has an
\* EmbeddingRecord computes no embedding and writes nothing; hence jobs with
\* force=false handled one after the other for an issue compute its
\* embedding at most once.
C2_SkipComputesOnce ==
  /\ [](\A i \in JobIssueIds \ tainted : computed[i] <= 1)
  /\ [][\A w \in Workers :
          ( /\ wpc[w] = "check_existing"
            /\ VectorsOf(wjob[w].issue_id) # {}
            /\ wpc'[w] # wpc[w] )
          => /\ last'[w] = "exists"
             /\ computed' = computed
             /\ issue_vectors' = issue_vectors
             /\ similar' = similar]_vars

\* C3: a job with force=true for an existing issue computes the embedding of
\* the current title and body and its upsert leaves exactly that embedding,
\* under the default model, as the issue's EmbeddingRecord.
C3_ForceOverwrites ==
  [][\A w \in Workers :
       ( /\ wjob[w].force
         /\ IssueExists(wjob[w].issue_id)
         /\ wpc'[w] # wpc[w] )
       => /\ wpc[w] = "fetch_issue" =>
               \/ last'[w] = "provider_error"
               \/ /\ wpc'[w] = "upsert"
                  /\ \E r \in issues :
                       /\ r.id = wjob[w].issue_id
                       /\ wjob'[w].vector = embedding_for_issue(r.title, r.body)
          /\ wpc[w] = "upsert" =>
               {v \in issue_vectors' : v.issue_id = wjob[w].issue_id} =
                 {[issue_id |-> wjob[w].issue_id,
                   embedding |-> wjob[w].vector,
                   model |-> DEFAULT_MODEL]}]_vars

\* C4: a job whose issue_id has no Issue row returns normally: nothing is
\* computed, nothing raised, and issue_vectors and similar stay as they were.
C4_MissingIssueReturns ==
  [][\A w \in Workers :
       ( /\ wpc[w] = "fetch_issue"
         /\ ~IssueExists(wjob[w].issue_id)
         /\ wpc'[w] # wpc[w] )
       => /\ wpc'[w] = "blpop"
          /\ last'[w] = "not_found"
          /\ computed' = computed
          /\ faults' = faults
          /\ issue_vectors' = issue_vectors
          /\ similar' = similar
          /\ queue' = queue]_vars

C4_Witness ==
  \E w \in Workers : last[w] = "not_found" /\ issue_vectors # {} /\ issues # {}

\* ids of the neighbours in a set of issue_vectors rows / of similar rows
IdsOf(S) == {s.issue_id : s \in S}
NeighborsOf(sim, issue_id) ==
  {e.neighbor_id : e \in {x \in sim : x.issue_id = issue_id}}

\* worker w ends the job it holds in this step
Ends(w) == Busy(w) /\ wpc'[w] \notin {"fetch_issue", "check_existing",
                                      "upsert", "similar"}

\* C5: when a job that computed an embedding ends (the provider and the
\* store being available), the similar rows of its issue are exactly one
\* top-K neighbour set of the computed embedding: no edge of an earlier run
\* to a neighbour outside the new set remains.
C5_EdgesReplaced ==
  [][\A w \in Workers :
       ( /\ wpc[w] \in {"upsert", "similar"}
         /\ Ends(w)
         /\ last'[w] \notin Outages \cup {"ForeignKeyViolationError"} )
       => \E S \in NearestSets(Candidates(wjob[w].issue_id), wjob[w].vector) :
            NeighborsOf(similar', wjob[w].issue_id) = IdsOf(S)]_vars

C9_FailureLoggedLoopContinues ==
  [][\A w \in Workers :
       ( Ends(w) /\ last'[w] \in Errors )
       => /\ wpc'[w] = "blpop"
          /\ wjob'[w] = NoJob
          /\ queue' = queue
          /\ pushed' = pushed
          /\ computed' = computed]_vars

\* a worker that logged a failure is processing the next job
C9_Witness ==
  \E w \in Workers : last[w] \in Errors /\ Busy(w) /\ computed[1] > 0

\* jobs in the hands of workers
InFlight == {w \in Workers : Busy(w)}

\* C11: a message leaves the list at blpop, in the hands of exactly one
\* worker; every message pushed is on the list or with one worker or gone;
\* when the job fails or its worker dies the message is not put back, no
\* worker holds it, and the step writes nothing to issue_vectors or similar.
C11_AtMostOnceDelivery ==
  /\ [](Len(queue) + Cardinality(InFlight) <= pushed)
  /\ [][\/ queue' = queue /\ pushed' = pushed
        \/ /\ pushed' = pushed + 1
           /\ Len(queue') = Len(queue) + 1
           /\ SubSeq(queue', 1, Len(queue)) = queue
        \/ /\ queue # <<>>
           /\ queue' = Tail(queue)
           /\ pushed' = pushed
           /\ \E w \in Workers :
                /\ wpc[w] = "blpop"
                /\ wpc'[w] = "fetch_issue"
                /\ wjob'[w].issue_id = Head(queue).issue_id
                /\ wjob'[w].force = Head(queue).force
                /\ \A o \in Workers \ {w} :
                     wpc'[o] = wpc[o] /\ wjob'[o] = wjob[o]]_vars
  /\ [][\A w \in Workers :
          ( Ends(w) /\ last'[w] \in Errors \cup {"crashed"} )
          => /\ queue' = queue
             /\ \A o \in Workers :
                  wjob'[o] = IF o = w THEN NoJob ELSE wjob[o]
             /\ issue_vectors' = issue_vectors
             /\ similar' = similar]_vars

\* a worker died holding the only job for issue 1: the list is empty, nobody
\* holds the job and issue 1 is left without a record
C11_Witness ==
  /\ \E w \in Workers : last[w] = "crashed"
  /\ queue = <<>>
  /\ InFlight = {}
  /\ pushed = 1
  /\ IssueExists(1)
  /\ VectorsOf(1) = {}

SameKey(a, b) == a.source = b.source /\ a.external_key = b.external_key

\* C12: issues never holds two rows with one (source, external_key), and a
\* webhook delivery for a key that has a row leaves that row, under the same
\* id, carrying the delivered title and body, with no row added.
C12_UpsertByKey ==
  /\ [](\A r1, r2 \in issues : SameKey(r1, r2) => r1 = r2)
  /\ [][\A d \in delivered' \ delivered :
          (\E old \in issues : SameKey(old, d))
          => /\ Cardinality(issues') = Cardinality(issues)
             /\ \A old \in issues :
                  SameKey(old, d)
                  => [old EXCEPT !.title = d.title, !.body = d.body]
                       \in issues']_vars

LabelsOf(lbls, issue_id) == {x.label : x \in {y \in lbls : y.issue_id = issue_id}}

\* the records of the dataset file the bootstrap is about to load
LoadingRecords ==
  IF bpc = "load_github" THEN GithubRecords
  ELSE IF bpc = "load_jira" THEN JiraRecords ELSE <<>>
LoadingFlavor == IF bpc = "load_github" THEN "github" ELSE "jira"

\* C13: after an issue that has a row is ingested again with label list L,
\* by a webhook or by the bootstrap load, the labels rows of the issue are
\* exactly the non-empty stripped labels of L.
C13_LabelsReplaced ==
  /\ [][\A d \in delivered' \ delivered : \A r \in issues' :
          ( SameKey(r, d) /\ \E old \in issues : SameKey(old, d) )
          => LabelsOf(labels', r.id) = CleanedLabels(d.labels)]_vars
  /\ [][( bpc \in {"load_github", "load_jira"} /\ bpc' # bpc )
        => \A k \in 1..Len(LoadingRecords) :
             LET p == _make_payload(LoadingRecords[k], LoadingFlavor)
             IN ( \A j \in (k + 1)..Len(LoadingRecords) :
                    ~SameKey(_make_payload(LoadingRecords[j], LoadingFlavor), p) )
                => \A r \in issues' :
                     SameKey(r, p)
                     => LabelsOf(labels', r.id)
                          = CleanedLabels(LoadingRecords[k].labels)]_vars

\* C14: an embedding load whose model produces vectors of another length
\* than the embedding column declares ends in the configuration error
\* (RuntimeError) without writing, and no row of issue_vectors ever holds a
\* vector of another length than the declared one.
C14_DimensionMismatchFailsFast ==
  /\ [](\A v \in issue_vectors :
          \/ embedding_typmod = NoTypmod
          \/ get_sentence_embedding_dimension(v.model) = embedding_typmod)
  /\ [][( /\ boots' # boots
          /\ blast' \in {"RuntimeError", "loading"}
          /\ embedding_typmod # NoTypmod
          /\ embedding_typmod # get_sentence_embedding_dimension(bmodel') )
        => /\ blast' = "RuntimeError"
           /\ bpc' = "idle"
           /\ issue_vectors' = issue_vectors]_vars

\* this step is a search call of the given kind; sres' is the call
Searched(op) == sres = NoSearch /\ sres'.op = op

RowIds(rows) == {rows[k].id : k \in 1..Len(rows)}

\* C15: vector_search returns at most limit rows, each for a different issue
\* whose record has the requested model, at its true distance, in ascending
\* order of distance and so with non-increasing scores.
C15_VectorSearchOrdered ==
  [][Searched("vector")
     => LET r == sres'.rows
        IN /\ Len(r) <= sres'.limit
           /\ Cardinality(RowIds(r)) = Len(r)
           /\ \A k \in 1..Len(r) :
                \E v \in issue_vectors :
                  /\ v.issue_id = r[k].id
                  /\ v.model = sres'.model
                  /\ r[k].distance = Distance(v.embedding, sres'.embedding)
           /\ \A k \in 1..(Len(r) - 1) :
                /\ r[k].distance <= r[k + 1].distance
                /\ RatLeq(r[k + 1].score, r[k].score)]_vars

\* a full page whose first and last rows differ in distance and in score
C15_Witness ==
  /\ sres.op = "vector"
  /\ Len(sres.rows) = MaxLimit
  /\ sres.rows[1].distance < sres.rows[MaxLimit].distance
  /\ RatLess(sres.rows[MaxLimit].score, sres.rows[1].score)

\* C16: every row of vector_search has score 1 / (1 + max(distance, 0)),
\* which is above 0, at most 1, and smaller for a larger distance.
C16_VectorScoreFormula ==
  [][Searched("vector")
     => LET r == sres'.rows
        IN \A k \in 1..Len(r) :
             /\ RatEq(r[k].score, Rat(1, 1 + Max(r[k].distance, 0)))
             /\ RatLess(Zero, r[k].score)
             /\ RatLeq(r[k].score, One)
             /\ \A j \in 1..Len(r) :
                  r[j].distance < r[k].distance
                  => RatLess(r[k].score, r[j].score)]_vars

\* C17: the vector candidates of hybrid_search are the ids of a result of
\* vector_search for the same embedding, limit and model, each with the
\* score vector_search gives it.
C17_HybridUsesVectorSearch ==
  [][Searched("hybrid")
     => \E V \in vector_search_results(sres'.embedding, sres'.limit,
                                       sres'.model) :
          /\ {c.issue_id : c \in sres'.vc} = RowIds(V)
          /\ \A c \in sres'.vc : \A k \in 1..Len(V) :
               V[k].id = c.issue_id => RatEq(c.vector_score, V[k].score)]_vars

\* the raw scores of an issue in a hybrid call, from the store
RawVectorScore(call, id) ==
  IF \E c \in call.vc : c.issue_id = id
  THEN LET v == CHOOSE x \in issue_vectors : x.issue_id = id
       IN Rat(1, 1 + Distance(v.embedding, call.embedding))
  ELSE Zero
RawTextScore(call, id) ==
  IF \E c \in call.tc : c.id = id
  THEN LET i == CHOOSE x \in issues : x.id = id
       IN Rat(Occurrences(i.title \o i.body, call.query), 10)
  ELSE Zero
Blended(call, id) ==
  RatAdd(RatMul(call.alpha, RawVectorScore(call, id)),
         RatMul(RatAdd(One, RatNeg(call.alpha)), RawTextScore(call, id)))

\* C18: the score of every row hybrid_search returns is
\* alpha * vectorScore + (1 - alpha) * textScore of the row's raw scores.
C18_HybridScoreIsBlend ==
  [][Searched("hybrid")
     => LET r == sres'.rows
        IN \A k \in 1..Len(r) :
             /\ RatEq(r[k].vector_score, RawVectorScore(sres', r[k].id))
             /\ RatEq(r[k].text_score, RawTextScore(sres', r[k].id))
             /\ RatEq(r[k].score, Blended(sres', r[k].id))]_vars

\* a row with both raw scores above 0, under an alpha that weighs them
\* differently
C18_Witness ==
  /\ sres.op = "hybrid"
  /\ sres.alpha = Rat(0, 1)
  /\ \E k \in 1..Len(sres.rows) :
       /\ RatLess(Zero, sres.rows[k].vector_score)
       /\ RatLess(Zero, sres.rows[k].text_score)
       /\ ~RatEq(sres.rows[k].vector_score, sres.rows[k].text_score)

\* C19: hybrid_search returns only ids of the vector or the lexical
\* candidates, an id on one side only scoring 0 for the other side, and
\* leaves out a candidate of either side only when the page is full of rows
\* scoring at least as much.
C19_HybridRanksUnion ==
  [][Searched("hybrid")
     => LET r == sres'.rows
            vids == {c.issue_id : c \in sres'.vc}
            tids == {c.id : c \in sres'.tc}
        IN /\ RowIds(r) \subseteq vids \cup tids
           /\ \A k \in 1..Len(r) :
                /\ r[k].id \notin vids => r[k].vector_score = Zero
                /\ r[k].id \notin tids => r[k].text_score = Zero
           /\ \A u \in (vids \cup tids) \ RowIds(r) :
                /\ Len(r) = sres'.limit
                /\ \A k \in 1..Len(r) :
                     RatLeq(Blended(sres', u), r[k].score)]_vars

\* a row returned from the lexical side only, next to one from the vector
\* side only
C19_Witness ==
  /\ sres.op = "hybrid"
  /\ \E j, k \in 1..Len(sres.rows) :
       /\ sres.rows[j].vector_score = Zero
       /\ RatLess(Zero, sres.rows[j].text_score)
       /\ sres.rows[k].text_score = Zero
       /\ RatLess(Zero, sres.rows[k].vector_score)

\* C20: hybrid_search returns at most limit rows in descending order of
\* blended score, rows of equal score in ascending order of id.
C20_HybridOrderDeterministic ==
  [][Searched("hybrid")
     => LET r == sres'.rows
        IN /\ Len(r) <= sres'.limit
           /\ \A k \in 1..(Len(r) - 1) :
                /\ RatLeq(r[k + 1].score, r[k].score)
                /\ RatEq(r[k + 1].score, r[k].score) => r[k].id < r[k + 1].id]_vars

\* C21: when no record of issue_vectors has the requested model, both
\* vector_search and hybrid_search return an empty list.
C21_NoModelEmptyResult ==
  [][(\E op \in {"vector", "hybrid"} : Searched(op))
     /\ ~(\E v \in issue_vectors : v.model = sres'.model)
     => sres'.rows = <<>>]_vars

\* issues for which process_job has run without force and without an
\* injected provider or store failure, and is not running now
Processed ==
  {r \in issues :
     /\ r.id \in JobIssueIds
     /\ computed[r.id] > 0
     /\ r.id \notin tainted
     /\ faults = 0
     /\ \A w \in Workers : wjob[w].issue_id # r.id}

\* C22: once process_job has run without force for a github issue,
\* vector_search with that issue's own embedding and limit 1 returns exactly
\* that issue, with score 1.
C22_EndToEnd ==
  [][\A r \in Processed :
       /\ r.source = "github"
       /\ Searched("vector")
       /\ sres'.limit = 1
       /\ sres'.model = DEFAULT_MODEL
       /\ sres'.embedding = embedding_for_issue(r.title, r.body)
       => /\ Len(sres'.rows) = 1
          /\ sres'.rows[1].id = r.id
          /\ RatEq(sres'.rows[1].score, One)]_vars

\* the route of a stored row, NoText when it has none
RouteOf(row) == _build_canonical_route(row, row.raw_json).route

\* C23: two stored issues (rows differing in (source, external_key)) that
\* both have a route have different routes.
C23_RoutesDistinct ==
  \A a, b \in catalog :
    /\ << a.source, a.external_key >> # << b.source, b.external_key >>
    /\ RouteOf(a) # NoText
    /\ RouteOf(b) # NoText
    => RouteOf(a) # RouteOf(b)

\* a key of shape {PROJECT}-{N}
JiraKeyShape(key) ==
  LET parts == Split1(key, "-")
  IN Len(parts) = 2 /\ parts[1] # NoText /\ isdigit(parts[2])

\* a numeric issue identifier is at hand: after "#" in the key, or in the raw
\* record
HasIssueNumber(row) ==
  \/ LET k == RFind(row.external_key, "#")
     IN k # 0 /\ isdigit(SubSeq(row.external_key, k + 1, Len(row.external_key)))
  \/ isdigit(row.raw_json.number)

\* C24: a stored row has no route when it is a github row without a numeric
\* issue identifier, a jira row whose key is missing or not of shape
\* {PROJECT}-{N}, or a row of any other source; and the rendered record is
\* missing exactly when the route is.
C24_NullWhenUnaddressable ==
  \A r \in catalog :
    /\ (r.source = "github" /\ ~HasIssueNumber(r)) => RouteOf(r) = NoText
    /\ (r.source = "jira" /\ ~JiraKeyShape(r.external_key))
         => RouteOf(r) = NoText
    /\ r.source \notin {"github", "jira"} => RouteOf(r) = NoText
    /\ (_project_issue_record(r) = NoView) <=> (RouteOf(r) = NoText)

\* C30: looking up the route of a stored issue returns the record of that
\* issue: same id, same route.
C30_RouteRoundTrip ==
  [][vres = NoView /\ vres'.op = "fetch"
     => \A r \in catalog :
          RouteOf(r) # NoText /\ RouteOf(r) = vres'.route
          => vres'.id = r.id /\ vres'.found = RouteOf(r)]_vars

\* the URLs of a text in order, without their trailing punctuation
RECURSIVE UrlsFrom(_, _)
UrlsFrom(text, k) ==
  LET m == _URL_RE(text, k)
  IN IF m.start = 0 THEN <<>>
     ELSE <<rstrip(SubSeq(text, m.start, m.end))>> \o UrlsFrom(text, m.end + 1)

\* where sub first occurs in s, 0 when it does not
IndexOf(s, sub) ==
  IF \E k \in 1..Len(s) : StartsWith(Drop(s, k - 1), sub)
  THEN CHOOSE k \in 1..Len(s) :
         /\ StartsWith(Drop(s, k - 1), sub)
         /\ \A j \in 1..(k - 1) : ~StartsWith(Drop(s, j - 1), sub)
  ELSE 0

\* the anchor elements of an HTML text, in order: href value, whether the
\* rel attribute follows it, and the content
RECURSIVE Anchors(_)
Anchors(h) ==
  LET k == IndexOf(h, A_OPEN)
      rest == Drop(h, k - 1 + Len(A_OPEN))
      q == Find(rest, "\"")
      after == Drop(rest, q)
      rel == StartsWith(after, REL)
      content == Drop(IF rel THEN Drop(after, Len(REL)) ELSE after, 1)
      c == IndexOf(content, A_CLOSE)
  IN IF k = 0 \/ q = 0 \/ c = 0 THEN <<>>
     ELSE <<[href |-> SubSeq(rest, 1, q - 1), rel |-> rel,
             text |-> SubSeq(content, 1, c - 1)]>>
          \o Anchors(Drop(content, c - 1 + Len(A_CLOSE)))

\* https://github.com/{owner}/{repo}/issues/{n}
GithubIssueShape(url) ==
  LET segs == SplitAll(Drop(url, 3), "/")
  IN /\ StartsWith(url, <<"https://", "github.com", "/">>)
     /\ Len(segs) = 4
     /\ segs[1] # <<>> /\ segs[2] # <<>>
     /\ segs[3] = <<"issues">>
     /\ isdigit(segs[4])
GithubIssueRoute(url) ==
  LET segs == SplitAll(Drop(url, 3), "/")
  IN <<"/", "gh", "/">> \o segs[1] \o <<"/">> \o segs[2]
     \o <<"/", "issues", "/">> \o segs[4]

\* https://{site}.atlassian.net/browse/{PROJECT}-{n}
JiraIssueShape(url) ==
  LET d == Find(url, ".atlassian.net")
      site == SubSeq(url, 2, d - 1)
      key == Drop(url, d + 3)
      pn == Split1(key, "-")
  IN /\ url # <<>> /\ Head(url) = "https://"
     /\ d > 2
     /\ \A k \in 1..Len(site) : site[k] \in SiteChar
     /\ StartsWith(Drop(url, d), <<"/", "browse", "/">>)
     /\ Len(pn) = 2
     /\ pn[1] # <<>> /\ \A k \in 1..Len(pn[1]) : IsAlnum(pn[1][k])
     /\ isdigit(pn[2])
JiraIssueRoute(url) ==
  LET d == Find(url, ".atlassian.net")
      key == Drop(url, d + 3)
  IN <<"/", "jira", "/">> \o SubSeq(url, 2, d - 1) \o <<"/">>
     \o Split1(key, "-")[1] \o <<"/">> \o key

Rendered == doc.op \in {"linkify", "render"}

\* C25: every URL of the text that has the GitHub issue shape or the Jira
\* issue shape becomes a link whose href is the internal route made of the
\* URL's own parts, without a rel attribute, and no link has the external
\* URL as its href.
C25_TrackerLinksRewritten ==
  Rendered =>
    LET urls == UrlsFrom(doc.text, 1)
        as == Anchors(doc.html)
    IN /\ Len(as) = Len(urls)
       /\ \A i \in 1..Len(urls) :
            /\ GithubIssueShape(urls[i])
                 => as[i].href = html_escape(GithubIssueRoute(urls[i]))
            /\ JiraIssueShape(urls[i])
                 => as[i].href = html_escape(JiraIssueRoute(urls[i]))
            /\ GithubIssueShape(urls[i]) \/ JiraIssueShape(urls[i])
                 => /\ ~as[i].rel
                    /\ \A j \in 1..Len(as) :
                         as[j].href # html_escape(urls[i])

\* "See https://github.com/a/b/issues/5" has been linkified
C25_Witness ==
  /\ doc.op = "linkify"
  /\ doc.text = <<"See", " ">> \o GITHUB_URL
  /\ Len(Anchors(doc.html)) = 1

Specials == {"<", ">", "&", "\"", "'"}
PlainText(s) == \A k \in 1..Len(s) : s[k] \notin Specials

\* the content of a paragraph: escaped text, line breaks and anchors whose
\* href value and content are escaped text
RECURSIVE InlineOK(_)
InlineOK(s) ==
  IF s = <<>> THEN TRUE
  ELSE IF StartsWith(s, BR) THEN InlineOK(Drop(s, Len(BR)))
  ELSE IF StartsWith(s, A_OPEN)
  THEN LET rest == Drop(s, Len(A_OPEN))
           q == Find(rest, "\"")
           after == Drop(rest, q)
           tag_end == IF StartsWith(after, REL) THEN Drop(after, Len(REL))
                      ELSE after
           c == IndexOf(tag_end, A_CLOSE)
       IN /\ q > 0
          /\ PlainText(SubSeq(rest, 1, q - 1))
          /\ StartsWith(tag_end, <<">">>)
          /\ c > 0
          /\ PlainText(SubSeq(tag_end, 2, c - 1))
          /\ InlineOK(Drop(tag_end, c - 1 + Len(A_CLOSE)))
  ELSE Head(s) \notin Specials /\ InlineOK(Tail(s))

\* a sequence of paragraph elements
RECURSIVE BlocksOK(_)
BlocksOK(s) ==
  IF s = <<>> THEN TRUE
  ELSE LET c == IndexOf(s, P_CLOSE)
       IN /\ StartsWith(s, P_OPEN)
          /\ c > 0
          /\ InlineOK(SubSeq(s, Len(P_OPEN) + 1, c - 1))
          /\ BlocksOK(Drop(s, c - 1 + Len(P_CLOSE)))

\* C27: body_html and the body_html of a comment are paragraph elements
\* holding only text without a raw <, >, &, " or ', line breaks, and anchors
\* whose attribute value and content are such text.
C27_NoRawSourceCharacter ==
  doc.op = "render" => BlocksOK(doc.html) /\ BlocksOK(doc.comment_html)

\* a body with a special character and a comment that is an HTML link, whose
\* URL runs into the closing quote
C27_Witness ==
  /\ doc.op = "render"
  /\ \E k \in 1..Len(doc.text) : doc.text[k] \in Specials
  /\ \E k \in 1..Len(doc.text) : doc.text[k] \in Schemes
  /\ doc.comment = HTML_LINK

\* the model a proposal's search has to use
GivenModel == IF prop.model_name = NoModelName THEN DEFAULT_MODEL
              ELSE prop.model_name

C29_WebhookEnqueuesAfterUpsert ==
  [][deliveries' = deliveries + 1
     => IF delivered' # delivered
        THEN \E d \in delivered' \ delivered : \E r \in issues' :
               /\ r.source = d.source
               /\ r.external_key = d.external_key
               /\ queue' = Append(queue, json_dumps(r.id, FALSE))
        ELSE queue' = queue]_vars

====
